---- MODULE Spec2Model ----
(***************************************************************************)
(* Model of the two-stage collection pipeline of study_design_test:        *)
(*   src/github_checker.js   the parallel variant  (variant = "par")       *)
(*   src/unnamed/part_000    the sequential variant (variant = "seq")      *)
(* fetchRepositories, checkRateLimit, waitIfNeeded and checkRepoContents   *)
(* are the same code in both files; checkRepositories differs.             *)
(*                                                                         *)
(* One action is one turn of the JavaScript event loop: the code that runs *)
(* from the arrival of a response (or the expiry of a timer) up to the     *)
(* next await of an external event.  The external collaborators (search    *)
(* service, host API, quota endpoint) answer nondeterministically.         *)
(***************************************************************************)
EXTENDS Integers, Sequences, FiniteSets, TLC

VARIABLES
    variant,       \* "seq" | "par": which file's checkRepositories runs
    pc,            \* "init" | "fetchReq" | "fetchDelay" | "fetched" | "checking"
                   \* | "returned" | "failed": position of the run
    backend,       \* the search service: a sequence of page responses
    cacheFile,     \* seart_repos.json
    resultsFile,   \* results.json
    page,          \* fetchRepositories: loop variable `page`
    repositories,  \* fetchRepositories: the accumulator `repositories`
    fetchRet,      \* fetchRepositories: its return value
    reqLog,        \* page indices requested from the search service, in order
    cands,         \* checkRepositories: `repositories` parsed from the cache
    i,             \* sequential checkRepositories: loop variable `i`
    task,          \* per candidate: the state of its probe
    validRepos,    \* sequential checkRepositories: the accumulator `validRepos`
    ret,           \* value checkRepositories returned
    writes         \* number of writes of results.json in this run

vars == <<variant, pc, backend, cacheFile, resultsFile, page, repositories,
          fetchRet, reqLog, cands, i, task, validRepos, ret, writes>>

fetchVars == <<page, repositories, fetchRet, reqLog>>
checkVars == <<cands, i, task, validRepos, ret, writes>>

---------------------------------------------------------------------------
(* Bounds of the model *)

\* longest candidate sequence read from the cache in Spec
MaxCand == 2
\* largest number of leading non-empty pages a search backend offers in SpecFetch
MaxOffered == 31
\* largest number of leading full (PageSize) pages a backend offers in SpecFetch
MaxFullPages == 2
\* length of the candidate sequence in SpecWide (two indices are multiples of 10)
MaxWide == 11

(* Program constants *)

\* for (let page = 0; page < 30; page++)
MaxPages == 30
\* params: { ..., size: 100 }
PageSize == 100
\* if (remaining < 100)
LowWater == 100
\* if (index % 10 === 0) await waitIfNeeded()
GovEvery == 10

---------------------------------------------------------------------------
(* Values *)

\* JavaScript null / a missing field
Null == "<null>"

\* `x || dflt`: the default replaces a falsy value
OrDefault(x, dflt) == IF x = Null \/ x = "" THEN dflt ELSE x

\* String.prototype.endsWith
EndsWith(s, suffix) ==
    /\ Len(s) >= Len(suffix)
    /\ SubSeq(s, Len(s) - Len(suffix) + 1, Len(s)) = suffix

\* Array.prototype.includes on a sequence
Includes(seq, x) == \E k \in 1..Len(seq) : seq[k] = x

\* a file on disk: absent, or present with the JSON value it holds
NoFile == [exists |-> FALSE, data |-> <<>>]
File(d) == [exists |-> TRUE, data |-> d]

\* two records of the search service
CandA == [id |-> 1, name |-> "octo/alpha", description |-> "a library",
          stargazers |-> 120, forks |-> 7, watchers |-> 9, openIssues |-> 3,
          totalIssues |-> 40, mainLanguage |-> "JavaScript",
          topics |-> <<"ci">>, license |-> "MIT License",
          createdAt |-> "2019-01-01", updatedAt |-> "2024-06-01",
          lastCommit |-> "2024-05-30", defaultBranch |-> "main"]
CandB == [id |-> 2, name |-> "octo/beta", description |-> Null,
          stargazers |-> 50, forks |-> 0, watchers |-> 1, openIssues |-> 0,
          totalIssues |-> 0, mainLanguage |-> "JavaScript",
          topics |-> <<>>, license |-> Null,
          createdAt |-> "2020-02-02", updatedAt |-> "2024-03-03",
          lastCommit |-> "2024-03-01", defaultBranch |-> "master"]
CandUniverse == {CandA, CandB}

RECURSIVE SeqsUpTo(_, _)
SeqsUpTo(S, n) ==
    IF n = 0 THEN {<<>>}
    ELSE LET shorter == SeqsUpTo(S, n - 1)
         IN  shorter \cup {Append(s, x) : s \in {t \in shorter : Len(t) = n - 1}, x \in S}

---------------------------------------------------------------------------
(* The search service *)

\* the j-th record (from 0) of the search service's result set
Item(j) == [(IF j % 2 = 0 THEN CandA ELSE CandB) EXCEPT !.id = j + 1]

OkPage(items) == [status |-> 200, items |-> items]
FailedPage == [status |-> 500, items |-> <<>>]

Max(a, b) == IF a >= b THEN a ELSE b

\* A backend with n leading pages of sz items each, then an empty page; with
\* hole, one more non-empty page follows the empty one; the request of page
\* failAt (when >= 0) fails.
MkBackend(n, sz, failAt, hole) ==
    [p1 \in 1..Max(n + (IF hole THEN 2 ELSE 0), failAt + 1) |->
        LET p == p1 - 1 IN
        IF p = failAt THEN FailedPage
        ELSE IF p < n THEN OkPage([k \in 1..sz |-> Item(p * sz + k - 1)])
        ELSE IF hole /\ p = n + 1 THEN OkPage(<<Item(n * sz)>>)
        ELSE OkPage(<<>>)]

\* the answer of the search service to the request of page p; a page past the
\* end of the result set is empty
ResponseOf(b, p) == IF p + 1 <= Len(b) THEN b[p + 1] ELSE OkPage(<<>>)

---------------------------------------------------------------------------
(* fetchRepositories *)

\* the loop condition `page < 30`
LoopContinuesOff(p) == p <= MaxPages
LoopContinues(p) == p < MaxPages

\* `if (response.data.items.length === 0) break`
IsLastPage(items) == Len(items) = 0

\* the value of the catch block: `return []`
OnRequestErrorPartial(acc) == acc
OnRequestError(acc) == <<>>

\* the cache file after the catch block: untouched
CacheAfterError(file, acc) == file

\* the code after the loop: writeFileSync("seart_repos.json", ...); return
FetchFinish(acc) ==
    /\ cacheFile' = File(acc)
    /\ fetchRet' = acc
    /\ pc' = "fetched"

\* (a variant whose accumulator outlives the call instead of being a local)
FetchInvokeKeepsAccumulator ==
    /\ repositories' = repositories
    /\ page' = 0
    /\ reqLog' = Append(reqLog, 0)
    /\ fetchRet' = fetchRet
    /\ pc' = "fetchReq"
    /\ UNCHANGED <<variant, backend, cacheFile, resultsFile, checkVars>>

\* the synchronous start of fetchRepositories: `repositories = []`, page 0 is
\* requested
FetchInvoke ==
    /\ repositories' = <<>>
    /\ page' = 0
    /\ reqLog' = Append(reqLog, 0)
    /\ fetchRet' = fetchRet
    /\ pc' = "fetchReq"
    /\ UNCHANGED <<variant, backend, cacheFile, resultsFile, checkVars>>

\* fetchRepositories called on its own
FetchCall ==
    /\ pc = "init"
    /\ FetchInvoke

\* the number of invocations of fetchRepositories so far (each requests page 0
\* once, first)
Calls == Cardinality({j \in 1..Len(reqLog) : reqLog[j] = 0})

\* fetchRepositories called a second time, after the first call has returned
FetchCallAgain ==
    /\ pc = "fetched"
    /\ Calls = 1
    /\ FetchInvoke

\* the answer to the outstanding page request arrives
PageResponse ==
    /\ pc = "fetchReq"
    /\ LET r == ResponseOf(backend, page) IN
       IF r.status # 200
       THEN /\ fetchRet' = OnRequestError(repositories)
            /\ cacheFile' = CacheAfterError(cacheFile, repositories)
            /\ pc' = "fetched"
            /\ UNCHANGED <<page, repositories, reqLog>>
       ELSE IF IsLastPage(r.items)
       THEN /\ FetchFinish(repositories)
            /\ UNCHANGED <<page, repositories, reqLog>>
       ELSE /\ repositories' = repositories \o r.items
            /\ pc' = "fetchDelay"
            /\ UNCHANGED <<page, fetchRet, reqLog, cacheFile>>
    /\ UNCHANGED <<variant, backend, resultsFile, checkVars>>

\* the 1 s delay between pages elapses: page++, and the next request or the end
PageDelay ==
    /\ pc = "fetchDelay"
    /\ page' = page + 1
    /\ IF LoopContinues(page + 1)
       THEN /\ reqLog' = Append(reqLog, page + 1)
            /\ pc' = "fetchReq"
            /\ UNCHANGED <<repositories, fetchRet, cacheFile>>
       ELSE /\ FetchFinish(repositories)
            /\ UNCHANGED <<repositories, reqLog>>
    /\ UNCHANGED <<variant, backend, resultsFile, checkVars>>

---------------------------------------------------------------------------
(* The host API: directory listings *)

\* no response received (yet)
NoResp == [status |-> 0, data |-> <<>>]
\* a lookup that failed with the given HTTP status
Failed(code) == [status |-> code, data |-> <<>>]
Listing(entries) == [status |-> 200, data |-> entries]

F(n) == [name |-> n, type |-> "file"]
D(n) == [name |-> n, type |-> "dir"]

\* the answers a root-directory lookup can get
RootResponses ==
    { Failed(404), Failed(500),
      Listing(<<F("README.md"), F("package.json")>>),
      Listing(<<F("Jenkinsfile"), F("index.js")>>),
      Listing(<<D(".github"), F("package.json")>>),
      Listing(<<D(".github"), F(".travis.yml"), F("package.json")>>),
      Listing(<<F(".github"), F("package.json")>>) }

\* the answers a lookup of .github/workflows/ can get
NestedResponses ==
    { Failed(404), Failed(500),
      Listing(<<>>),
      Listing(<<F("ci.yml")>>),
      Listing(<<F("build.yaml"), F("yml")>>) }

---------------------------------------------------------------------------
(* checkRepoContents *)

\* `response.data.map(file => file.name)`
Files(data) == [k \in 1..Len(data) |-> data[k].name]

ciFiles == <<".travis.yml", ".gitlab-ci.yml", "Jenkinsfile", "azure-pipelines.yml",
             "appveyor.yml", "bitrise.yml", "wercker.yml">>

\* `files.includes("package.json")`
HasPackageJson(files) == Includes(files, "package.json")

\* `files.some(file => ciFiles.includes(file))`
HasOtherCiCd(files) == \E k \in 1..Len(files) : Includes(ciFiles, files[k])

\* `if (files.includes(".github"))`: the workflow directory is looked up
NeedsWorkflows(files) == Includes(files, ".github")

\* `workflowsResponse.data.some(file => file.name.endsWith(".yml"))`
SomeWorkflowAnyFile(data) == Len(data) > 0
SomeWorkflow(data) == \E k \in 1..Len(data) : EndsWith(data[k].name, ".yml")

\* the value of hasGha after the nested try/catch: false unless the lookup
\* succeeded and found a workflow
HasGhaOnFailure(nested) == nested.status # 200 \/ SomeWorkflow(nested.data)
HasGha(nested) == nested.status = 200 /\ SomeWorkflow(nested.data)

\* the value of the outer catch block
AllFalse == [hasCi |-> FALSE, hasGha |-> FALSE, hasOtherCiCd |-> FALSE,
             hasPackageJson |-> FALSE]

\* what the outer catch returns for a failed root lookup
OnRootFailureKeepsCi(root) == [AllFalse EXCEPT !.hasCi = TRUE, !.hasOtherCiCd = TRUE]
OnRootFailure(root) == AllFalse

\* the value checkRepoContents returns, given the answer to the root lookup
\* and the answer to the nested lookup (NoResp when none was issued)
CheckRepoContents(root, nested) ==
    IF root.status # 200 THEN OnRootFailure(root)
    ELSE LET files == Files(root.data)
             hasPackageJson == HasPackageJson(files)
             hasOtherCiCd == HasOtherCiCd(files)
             hasGha == NeedsWorkflows(files) /\ HasGha(nested)
         IN  [hasCi |-> hasGha \/ hasOtherCiCd, hasGha |-> hasGha,
              hasOtherCiCd |-> hasOtherCiCd, hasPackageJson |-> hasPackageJson]

---------------------------------------------------------------------------
(* waitIfNeeded *)

\* values the quota endpoint reports as rate.remaining
QuotaValues == {0, 99, 100, 5000}

\* `if (remaining < 100)`
ShouldPauseOffByOne(remaining) == remaining <= LowWater
ShouldPause(remaining) == remaining < LowWater

\* the answer of the quota endpoint on its way to checkRateLimit
NoAnswer == [kind |-> "none", remaining |-> -1]
QuotaAnswers == {[kind |-> "ok", remaining |-> q] : q \in QuotaValues}
                \cup {[kind |-> "error", remaining |-> -1]}

---------------------------------------------------------------------------
(* checkRepositories: filter and projection *)

\* `if (hasCi && hasPackageJson)`
RetainedEither(res) == res.hasCi \/ res.hasPackageJson
Retained(res) == res.hasCi /\ res.hasPackageJson

\* the record built for a retained candidate
Project(repo, res) ==
    [id |-> repo.id,
     name |-> repo.name,
     url |-> "https://github.com/" \o repo.name,
     description |-> OrDefault(repo.description, "No description"),
     stars |-> repo.stargazers,
     forks |-> repo.forks,
     watchers |-> repo.watchers,
     open_issues |-> repo.openIssues,
     total_issues |-> repo.totalIssues,
     language |-> repo.mainLanguage,
     topics |-> repo.topics,
     license |-> OrDefault(repo.license, "None"),
     created_at |-> repo.createdAt,
     updated_at |-> repo.updatedAt,
     last_commit |-> repo.lastCommit,
     default_branch |-> repo.defaultBranch,
     hasCi |-> res.hasCi,
     hasGha |-> res.hasGha,
     hasOtherCiCd |-> res.hasOtherCiCd,
     hasPackageJson |-> res.hasPackageJson]

\* what one candidate contributes: its record, or nothing (`return null`,
\* dropped by filter(Boolean); no push in the sequential variant)
Contribution(repo, res) == IF Retained(res) THEN <<Project(repo, res)>> ELSE <<>>

---------------------------------------------------------------------------
(* checkRepositories: the state of one candidate's probe *)

\* st: "idle"     not reached yet (sequential variant)
\*     "quota"    waitIfNeeded called, quota query outstanding; quota holds
\*                the answer of the endpoint once it is on its way
\*     "pause"    waitIfNeeded is in its one-hour pause (quota holds `remaining`)
\*     "root"     checkRepoContents called, root lookup outstanding
\*     "nested"   lookup of .github/workflows/ outstanding
\*     "delay"    probe resolved, 500 ms delay running (sequential variant)
\*     "done"     resolved
\*     "rejected" the quota query failed
IdleTask == [st |-> "idle", gov |-> 0, quota |-> NoAnswer, lookups |-> <<>>, root |-> NoResp,
             nested |-> NoResp, res |-> AllFalse, out |-> <<>>]

\* `await waitIfNeeded()`: the quota query is issued
CallGovernor(t) == [t EXCEPT !.st = "quota", !.gov = @ + 1]

\* `await checkRepoContents(repo.name)`: the root lookup is issued
StartProbe(t) == [t EXCEPT !.st = "root", !.quota = NoAnswer, !.lookups = Append(@, "root")]

\* (a variant that follows the comment on that line: "every 50 repos")
GatedEveryFifty(index) == index % 50 = 0
\* parallel variant: `if (index % 10 === 0) await waitIfNeeded()`
Gated(index) == index % GovEvery = 0

\* (a variant in which the sequential file starts every candidate at once)
InitialTasksAllStarted(v, n) ==
    [k \in 1..n |-> IF Gated(k - 1) THEN CallGovernor(IdleTask) ELSE StartProbe(IdleTask)]

\* the tasks right after the synchronous part of checkRepositories: the
\* sequential loop has called waitIfNeeded for candidate 0; the parallel map
\* has run every callback up to its first await
InitialTasks(v, n) ==
    [k \in 1..n |->
        IF v = "seq"
        THEN (IF k = 1 THEN CallGovernor(IdleTask) ELSE IdleTask)
        ELSE (IF Gated(k - 1) THEN CallGovernor(IdleTask) ELSE StartProbe(IdleTask))]

RECURSIVE ConcatReverse(_, _)
\* (a variant that joins the contributions last candidate first)
ConcatReverse(t, n) == IF n = 0 THEN <<>> ELSE t[n].out \o ConcatReverse(t, n - 1)

RECURSIVE Concat(_, _)
\* the contributions of tasks 1..n, in candidate order
Concat(t, n) == IF n = 0 THEN <<>> ELSE Concat(t, n - 1) \o t[n].out

\* (a variant that reports the shared array `validRepos` declared before the map)
JoinedShared(t) == validRepos
\* parallel variant: `(await Promise.all(checks)).filter(Boolean)`
Joined(t) == Concat(t, Len(t))

\* Promise.all resolves once every promise has resolved
AllDoneAny(t) == \E k \in 1..Len(t) : t[k].st = "done"
AllDone(t) == \A k \in 1..Len(t) : t[k].st = "done"

\* fs.writeFileSync("results.json", ...); return
WriteResults(recs) ==
    /\ resultsFile' = File(recs)
    /\ writes' = writes + 1
    /\ ret' = recs
    /\ pc' = "returned"

\* `if (!repositories.length) return []`
EmptyReturn ==
    /\ ret' = <<>>
    /\ pc' = "returned"
    /\ UNCHANGED <<resultsFile, writes>>

\* (a variant that falls back on the value fetchRepositories returned when the
\* cache file is missing)
ReadCacheUsesReturn ==
    LET data == IF cacheFile.exists THEN cacheFile.data ELSE fetchRet IN
    /\ cands' = data
    /\ IF Len(data) = 0
       THEN /\ EmptyReturn
            /\ UNCHANGED <<i, task, validRepos>>
       ELSE /\ pc' = "checking"
            /\ task' = InitialTasks(variant, Len(data))
            /\ i' = 0
            /\ validRepos' = <<>>
            /\ UNCHANGED <<resultsFile, ret, writes>>

\* checkRepositories from `JSON.parse(fs.readFileSync("seart_repos.json"))` on
ReadCache ==
    IF ~cacheFile.exists
    THEN /\ pc' = "failed"
         /\ UNCHANGED <<resultsFile, checkVars>>
    ELSE /\ cands' = cacheFile.data
         /\ IF Len(cacheFile.data) = 0
            THEN /\ EmptyReturn
                 /\ UNCHANGED <<i, task, validRepos>>
            ELSE /\ pc' = "checking"
                 /\ task' = InitialTasks(variant, Len(cacheFile.data))
                 /\ i' = 0
                 /\ validRepos' = <<>>
                 /\ UNCHANGED <<resultsFile, ret, writes>>

\* (a variant that queries the search service whether or not the cache exists)
CheckStartAlwaysFetch ==
    /\ pc = "init"
    /\ FetchInvoke

\* checkRepositories is called
CheckStart ==
    /\ pc = "init"
    /\ IF cacheFile.exists
       THEN /\ ReadCache
            /\ UNCHANGED <<variant, backend, cacheFile, fetchVars>>
       ELSE FetchInvoke

\* `await fetchRepositories()` returns (its value is dropped)
Resume ==
    /\ pc = "fetched"
    /\ ReadCache
    /\ UNCHANGED <<variant, backend, cacheFile, fetchVars>>

\* probes receive answers while the run is checking.  Once checkRepositories
\* has rejected, nothing handles the rejection (`checkRepositories().then(...)`
\* has no catch): node ends the process, and the answers to the lookups still
\* outstanding in the parallel variant are never handled
InFlight(k) ==
    /\ k \in DOMAIN task
    /\ pc = "checking"

\* the quota endpoint answers the outstanding query of candidate k
QuotaAnswer(k, m) ==
    /\ InFlight(k)
    /\ task[k].st = "quota"
    /\ task[k].quota = NoAnswer
    /\ task' = [task EXCEPT ![k].quota = m]
    /\ UNCHANGED <<variant, pc, backend, cacheFile, resultsFile, fetchVars,
                   cands, i, validRepos, ret, writes>>

\* checkRateLimit returns `remaining`; waitIfNeeded logs it and pauses or returns
QuotaResponse(k) ==
    /\ InFlight(k)
    /\ task[k].st = "quota"
    /\ task[k].quota.kind = "ok"
    /\ task' = [task EXCEPT ![k] = IF ShouldPause(@.quota.remaining)
                                   THEN [@ EXCEPT !.st = "pause"]
                                   ELSE StartProbe(@)]
    /\ UNCHANGED <<variant, pc, backend, cacheFile, resultsFile, fetchVars,
                   cands, i, validRepos, ret, writes>>

\* (a variant in which the per-candidate catch also covers waitIfNeeded)
QuotaFailureCaught(k) ==
    /\ InFlight(k)
    /\ task[k].st = "quota"
    /\ task[k].quota.kind = "error"
    /\ task' = [task EXCEPT ![k] = StartProbe(@)]
    /\ UNCHANGED <<variant, pc, backend, cacheFile, resultsFile, fetchVars,
                   cands, i, validRepos, ret, writes>>

\* checkRateLimit throws: nothing catches it, checkRepositories rejects and the
\* unhandled rejection ends the process
QuotaFailure(k) ==
    /\ InFlight(k)
    /\ task[k].st = "quota"
    /\ task[k].quota.kind = "error"
    /\ task' = [task EXCEPT ![k].st = "rejected"]
    /\ pc' = "failed"
    /\ UNCHANGED <<variant, backend, cacheFile, resultsFile, fetchVars,
                   cands, i, validRepos, ret, writes>>

\* the one-hour pause elapses; waitIfNeeded returns
PauseElapsed(k) ==
    /\ InFlight(k)
    /\ task[k].st = "pause"
    /\ task' = [task EXCEPT ![k] = StartProbe(@)]
    /\ UNCHANGED <<variant, pc, backend, cacheFile, resultsFile, fetchVars,
                   cands, i, validRepos, ret, writes>>

\* checkRepoContents has returned res for candidate k, whose task is t
Settle(k, t, res) ==
    LET out == Contribution(cands[k], res) IN
    IF variant = "seq"
    THEN /\ task' = [task EXCEPT ![k] = [t EXCEPT !.st = "delay", !.res = res, !.out = out]]
         /\ validRepos' = validRepos \o out
         /\ UNCHANGED <<pc, resultsFile, ret, writes>>
    ELSE LET after == [task EXCEPT ![k] = [t EXCEPT !.st = "done", !.res = res, !.out = out]] IN
         /\ task' = after
         /\ validRepos' = validRepos
         /\ IF pc = "checking" /\ AllDone(after)
            THEN WriteResults(Joined(after))
            ELSE UNCHANGED <<pc, resultsFile, ret, writes>>

\* the answer to the root lookup arrives
RootResponse(k, r) ==
    /\ InFlight(k)
    /\ task[k].st = "root"
    /\ IF r.status = 200 /\ NeedsWorkflows(Files(r.data))
       THEN /\ task' = [task EXCEPT ![k] = [@ EXCEPT !.st = "nested", !.root = r,
                                                      !.lookups = Append(@, "workflows")]]
            /\ UNCHANGED <<pc, resultsFile, ret, writes, validRepos>>
       ELSE Settle(k, [task[k] EXCEPT !.root = r], CheckRepoContents(r, NoResp))
    /\ UNCHANGED <<variant, backend, cacheFile, fetchVars, cands, i>>

\* the answer to the lookup of .github/workflows/ arrives
NestedResponse(k, r) ==
    /\ InFlight(k)
    /\ task[k].st = "nested"
    /\ Settle(k, [task[k] EXCEPT !.nested = r], CheckRepoContents(task[k].root, r))
    /\ UNCHANGED <<variant, backend, cacheFile, fetchVars, cands, i>>

\* (a variant whose next iteration starts the probe without calling waitIfNeeded)
InterDelaySkipsGovernor(k) ==
    /\ InFlight(k)
    /\ task[k].st = "delay"
    /\ i' = i + 1
    /\ IF i + 1 < Len(cands)
       THEN /\ task' = [task EXCEPT ![k].st = "done", ![k + 1] = StartProbe(@)]
            /\ UNCHANGED <<pc, resultsFile, ret, writes>>
       ELSE /\ task' = [task EXCEPT ![k].st = "done"]
            /\ WriteResults(validRepos)
    /\ UNCHANGED <<variant, backend, cacheFile, fetchVars, cands, validRepos>>

\* sequential variant: the 500 ms delay elapses; i++, then the next iteration
\* calls waitIfNeeded, or the loop ends and results.json is written
InterDelay(k) ==
    /\ InFlight(k)
    /\ task[k].st = "delay"
    /\ i' = i + 1
    /\ IF i + 1 < Len(cands)
       THEN /\ task' = [task EXCEPT ![k].st = "done", ![k + 1] = CallGovernor(@)]
            /\ UNCHANGED <<pc, resultsFile, ret, writes>>
       ELSE /\ task' = [task EXCEPT ![k].st = "done"]
            /\ WriteResults(validRepos)
    /\ UNCHANGED <<variant, backend, cacheFile, fetchVars, cands, validRepos>>

---------------------------------------------------------------------------
(* Specifications *)

\* a results.json left by an earlier run
StaleResults ==
    <<Project(CandB, [hasCi |-> TRUE, hasGha |-> TRUE, hasOtherCiCd |-> FALSE,
                      hasPackageJson |-> TRUE])>>

\* candidate sequences a cache file can hold
CandSeqs == SeqsUpTo(CandUniverse, MaxCand)

\* search backends whose whole result set fits MaxCand
SmallBackends ==
    { MkBackend(x[1], x[2], x[3], FALSE) :
        x \in { y \in (0..MaxCand) \X (1..MaxCand) \X ((-1)..MaxCand) :
                   y[1] * y[2] <= MaxCand /\ y[3] <= y[1] } }

InitCommon ==
    /\ variant \in {"seq", "par"}
    /\ pc = "init"
    /\ page = 0
    /\ repositories = <<>>
    /\ fetchRet = <<>>
    /\ reqLog = <<>>
    /\ cands = <<>>
    /\ i = 0
    /\ task = <<>>
    /\ validRepos = <<>>
    /\ ret = <<>>
    /\ writes = 0

\* a run of the script: the cache is present, or absent with a search service
Init ==
    /\ InitCommon
    /\ resultsFile = File(StaleResults)
    /\ \/ /\ cacheFile \in {File(s) : s \in CandSeqs}
          /\ backend = MkBackend(1, 1, -1, FALSE)
       \/ /\ cacheFile = NoFile
          /\ backend \in SmallBackends

OnQuotaAnswer == \E k \in DOMAIN task : \E m \in QuotaAnswers : QuotaAnswer(k, m)
OnQuotaResponse == \E k \in DOMAIN task : QuotaResponse(k)
OnQuotaFailure == \E k \in DOMAIN task : QuotaFailure(k)
OnPauseElapsed == \E k \in DOMAIN task : PauseElapsed(k)
OnRootResponse == \E k \in DOMAIN task : \E r \in RootResponses : RootResponse(k, r)
OnNestedResponse == \E k \in DOMAIN task : \E r \in NestedResponses : NestedResponse(k, r)
OnInterDelay == \E k \in DOMAIN task : InterDelay(k)

Next ==
    \/ CheckStart
    \/ PageResponse
    \/ PageDelay
    \/ Resume
    \/ OnQuotaAnswer
    \/ OnQuotaResponse
    \/ OnQuotaFailure
    \/ OnPauseElapsed
    \/ OnRootResponse
    \/ OnNestedResponse
    \/ OnInterDelay

Spec == Init /\ [][Next]_vars

\* fetchRepositories on its own, against backends of up to MaxOffered pages
BigBackends ==
    { MkBackend(n, 1, f, h) : n \in 0..MaxOffered, f \in (-1)..MaxOffered, h \in BOOLEAN }
    \cup { MkBackend(n, PageSize, f, FALSE) : n \in 0..MaxFullPages, f \in (-1)..MaxFullPages }

InitFetch ==
    /\ InitCommon
    /\ resultsFile = File(StaleResults)
    /\ cacheFile \in {NoFile, File(<<CandB>>)}
    /\ backend \in BigBackends

NextFetch ==
    \/ FetchCall
    \/ PageResponse
    \/ PageDelay

SpecFetch == InitFetch /\ [][NextFetch]_vars

\* fetchRepositories called twice in a row against the same backend
NextFetchTwice ==
    \/ FetchCall
    \/ PageResponse
    \/ PageDelay
    \/ FetchCallAgain

SpecFetchTwice == InitFetch /\ [][NextFetchTwice]_vars

\* the parallel variant over a cache of MaxWide candidates, every root lookup
\* answered not-found
WideCands == [k \in 1..MaxWide |-> Item(k - 1)]
WideRootResponses == {Failed(404)}

InitWide ==
    /\ InitCommon
    /\ variant = "par"
    /\ resultsFile = File(StaleResults)
    /\ cacheFile = File(WideCands)
    /\ backend = MkBackend(1, 1, -1, FALSE)

OnRootResponseWide == \E k \in DOMAIN task : \E r \in WideRootResponses : RootResponse(k, r)

NextWide ==
    \/ CheckStart
    \/ OnQuotaAnswer
    \/ OnQuotaResponse
    \/ OnQuotaFailure
    \/ OnPauseElapsed
    \/ OnRootResponseWide

SpecWide == InitWide /\ [][NextWide]_vars

\* a run in which every external call eventually returns and every delay and
\* pause eventually elapses: the event loop runs a turn whenever one is due
SpecLive == Init /\ [][Next]_vars /\ WF_vars(Next)

---------------------------------------------------------------------------
(* Properties *)

Resolved(t) == t.st \in {"delay", "done"}
LookupFailed(resp) == resp.status \notin {0, 200}

\* the predicate of the specification on a ProbeResult
Qualifies(res) == res.hasPackageJson /\ (res.hasGha \/ res.hasOtherCiCd)

RECURSIVE ExpectedOutput(_)
\* the records of the qualifying candidates among the first n, in candidate order
ExpectedOutput(n) ==
    IF n = 0 THEN <<>>
    ELSE ExpectedOutput(n - 1) \o
         (IF Qualifies(task[n].res) THEN <<Project(cands[n], task[n].res)>> ELSE <<>>)

\* C1: in a run of checkRepositories that completes by writing its output, the
\* written sequence (and the returned one) holds, in candidate order, exactly one
\* record for each candidate whose ProbeResult has hasManifest and (hasNativeCi or
\* hasOtherCi), and nothing else.
C1_OutputIsExactlyQualifying ==
    (pc = "returned" /\ writes > 0) =>
        /\ \A k \in 1..Len(cands) : Resolved(task[k])
        /\ resultsFile = File(ExpectedOutput(Len(cands)))
        /\ ret = ExpectedOutput(Len(cands))

C1_Witness ==
    /\ pc = "returned"
    /\ writes = 1
    /\ Len(cands) = 2
    /\ Len(resultsFile.data) = 1
    /\ \E k \in 1..2 : task[k].res.hasPackageJson /\ ~task[k].res.hasCi
    /\ \E k \in 1..2 : task[k].res.hasPackageJson /\ task[k].res.hasGha

RECURSIVE ItemsOfPages(_, _)
\* the items of pages 0..n-1 of backend b, in page order then in-page order
ItemsOfPages(b, n) ==
    IF n = 0 THEN <<>> ELSE ItemsOfPages(b, n - 1) \o ResponseOf(b, n - 1).items

\* some page request of this fetch failed
RequestFailed == \E j \in 1..Len(reqLog) : ResponseOf(backend, reqLog[j]).status # 200

\* C2: fetchRepositories requests pages 0, 1, 2, ... in order; it requests nothing
\* after an empty page and never a page of index 30 or more; a fetch without a
\* failed request stops exactly at the first empty page or after 30 requests and
\* returns exactly the items of the non-empty pages requested (2 pages of 100
\* and an empty page give 200 items).
C2_PagesUntilEmptyOrThirty ==
    /\ \A j \in 1..Len(reqLog) : reqLog[j] = j - 1
    /\ Len(reqLog) <= 30
    /\ \A j \in 1..(Len(reqLog) - 1) : Len(ResponseOf(backend, reqLog[j]).items) > 0
    /\ (pc = "fetched" /\ ~RequestFailed) =>
          /\ \/ Len(ResponseOf(backend, reqLog[Len(reqLog)]).items) = 0
             \/ Len(reqLog) = 30
          /\ fetchRet = ItemsOfPages(backend, Len(reqLog))
          /\ cacheFile = File(fetchRet)
          /\ (backend = MkBackend(2, 100, -1, FALSE) => Len(fetchRet) = 200)

C2_Witness ==
    /\ pc = "fetched"
    /\ Len(reqLog) = 30
    /\ Len(fetchRet) = 30
    /\ Len(backend) > 30

\* C3: when a page request fails, whatever the number of pages that succeeded
\* before it, the fetch ends at once and returns the empty sequence, and the
\* cache file is left as it was: the cache file changes only when a fetch
\* without a failed request finishes.
C3_FailedFetchReturnsEmpty ==
    /\ [](pc = "fetched" /\ RequestFailed => fetchRet = <<>>)
    /\ [][ /\ (pc = "fetchReq" /\ ResponseOf(backend, page).status # 200)
              => (pc' = "fetched" /\ fetchRet' = <<>> /\ cacheFile' = cacheFile)
           /\ cacheFile' # cacheFile
              => (pc' = "fetched" /\ ~RequestFailed' /\ cacheFile' = File(fetchRet')) ]_vars

C3_Witness ==
    /\ pc = "fetched"
    /\ RequestFailed
    /\ Len(reqLog) = 3
    /\ Len(repositories) = 2
    /\ fetchRet = <<>>
    /\ cacheFile = NoFile

\* the file names of a listing, and the seven names of other CI systems
NamesOf(resp) == {resp.data[k].name : k \in 1..Len(resp.data)}
OtherCiNames == {".travis.yml", ".gitlab-ci.yml", "Jenkinsfile", "azure-pipelines.yml",
                 "appveyor.yml", "bitrise.yml", "wercker.yml"}

\* C4: a failed lookup never makes the probe raise: the probe resolves; after a
\* failed root lookup (not-found or other) all four flags are false; after a
\* successful root lookup and a failed nested lookup hasGha is false, hasManifest
\* and hasOtherCi are those of the root listing, and hasCi = hasOtherCi.
C4_ProbeFailsOpen ==
    \A k \in DOMAIN task :
        /\ LookupFailed(task[k].root) =>
              /\ Resolved(task[k])
              /\ task[k].nested = NoResp
              /\ ~task[k].res.hasPackageJson /\ ~task[k].res.hasGha
              /\ ~task[k].res.hasOtherCiCd /\ ~task[k].res.hasCi
        /\ LookupFailed(task[k].nested) =>
              /\ Resolved(task[k])
              /\ task[k].root.status = 200
              /\ ~task[k].res.hasGha
              /\ task[k].res.hasPackageJson = ("package.json" \in NamesOf(task[k].root))
              /\ task[k].res.hasOtherCiCd = (NamesOf(task[k].root) \cap OtherCiNames # {})
              /\ task[k].res.hasCi = task[k].res.hasOtherCiCd

C4_Witness ==
    \E k1, k2 \in DOMAIN task :
        /\ Resolved(task[k1]) /\ task[k1].root.status = 500
        /\ Resolved(task[k2]) /\ task[k2].nested.status = 500
        /\ task[k2].res.hasOtherCiCd /\ task[k2].res.hasPackageJson

\* C5: a resolved probe has hasGha = true iff the nested workflow listing it
\* received holds at least one entry whose name ends in ".yml" (the one extension
\* the code recognizes); an empty listing, or no listing because .github is
\* absent or the lookup failed, gives hasGha = false.
C5_NativeCiIffWorkflowFile ==
    \A k \in DOMAIN task :
        Resolved(task[k]) =>
            /\ task[k].res.hasGha =
                  (/\ task[k].nested.status = 200
                   /\ \E n \in NamesOf(task[k].nested) : EndsWith(n, ".yml"))
            /\ (task[k].root.status = 200 /\ ".github" \notin NamesOf(task[k].root))
                  => (task[k].nested = NoResp /\ ~task[k].res.hasGha)
            /\ task[k].nested = Listing(<<>>) => ~task[k].res.hasGha

C5_Witness ==
    \E k1, k2 \in DOMAIN task :
        /\ Resolved(task[k1]) /\ task[k1].res.hasGha
        /\ task[k1].nested = Listing(<<F("ci.yml")>>)
        /\ Resolved(task[k2]) /\ ~task[k2].res.hasGha
        /\ task[k2].nested.status = 200 /\ Len(task[k2].nested.data) = 2

\* C6: when checkRateLimit returns `remaining`, waitIfNeeded pauses iff
\* remaining < 100: below 100 it enters the pause before any lookup is issued
\* and only the end of the pause lets it return; at 100 or more it returns at
\* once and the probe starts.
C6_PauseIffBelowHundred ==
    /\ [](\A k \in DOMAIN task :
            task[k].st = "pause" => (task[k].quota.remaining < 100 /\ task[k].lookups = <<>>))
    /\ [][\A k \in DOMAIN task :
            /\ (task[k].st = "quota" /\ task[k].quota.kind = "ok" /\ task'[k] # task[k])
                  => IF task[k].quota.remaining < 100
                     THEN task'[k].st = "pause" /\ task'[k].quota = task[k].quota
                     ELSE task'[k].st = "root"
            /\ (task[k].st = "pause" /\ task'[k] # task[k])
                  => task'[k].st = "root"
            /\ (task'[k].st = "pause" /\ task[k].st # "pause")
                  => (task[k].st = "quota" /\ task[k].quota.remaining < 100) ]_vars

C6_Witness ==
    \E k \in DOMAIN task :
        /\ task[k].st = "pause"
        /\ task[k].quota.remaining = 99

\* C7: a failed quota query is not retried and not caught: the candidate's
\* task is rejected, the run fails, and results.json is not written in that
\* run, whatever was probed before; nothing more is handled once the run has
\* failed.
C7_QuotaFailureIsFatal ==
    /\ [](\A k \in DOMAIN task : task[k].gov <= 1)
    /\ [](pc = "failed" => (writes = 0 /\ resultsFile = File(StaleResults)))
    /\ []((\E k \in DOMAIN task : task[k].st = "rejected") => pc = "failed")
    /\ [][\A k \in DOMAIN task :
            (task[k].st = "quota" /\ task[k].quota.kind = "error" /\ task'[k] # task[k])
                => (task'[k].st = "rejected" /\ pc' = "failed") ]_vars
    /\ [][(pc = "failed") => (vars' = vars)]_vars

C7_Witness ==
    /\ variant = "seq"
    /\ pc = "failed"
    /\ Len(task) = 2
    /\ task[2].st = "rejected"
    /\ task[1].out # <<>>
    /\ writes = 0

\* C8 as claimed: a candidate one of whose lookups failed is not retained.
C8_FailedLookupNotRetained ==
    \A k \in DOMAIN task :
        (Resolved(task[k]) /\ (LookupFailed(task[k].root) \/ LookupFailed(task[k].nested)))
            => task[k].out = <<>>

\* C8 amended: a failed lookup never aborts the batch: the probe resolves, a
\* run fails only on a failed quota query (or a missing cache), and a run over a
\* non-empty candidate sequence that returns has probed every candidate and
\* written the records of all that qualified.  A candidate whose root lookup
\* failed is not retained; one whose nested lookup failed is retained iff its
\* root listing holds package.json and one of the other-CI files.
C8_LookupFailureNeverAborts ==
    /\ \A k \in DOMAIN task :
          /\ LookupFailed(task[k].root) => (Resolved(task[k]) /\ task[k].out = <<>>)
          /\ LookupFailed(task[k].nested) =>
                /\ Resolved(task[k])
                /\ (task[k].out # <<>>) =
                      (/\ "package.json" \in NamesOf(task[k].root)
                       /\ NamesOf(task[k].root) \cap OtherCiNames # {})
    /\ (pc = "failed" /\ task # <<>>) => \E k \in DOMAIN task : task[k].st = "rejected"
    /\ (pc = "returned" /\ cands # <<>>) =>
          /\ \A k \in DOMAIN task : Resolved(task[k]) /\ task[k].lookups # <<>>
          /\ writes = 1
          /\ resultsFile = File(ExpectedOutput(Len(cands)))

C8_Witness ==
    /\ pc = "returned"
    /\ writes = 1
    /\ \E k1, k2 \in DOMAIN task :
        /\ task[k1].nested.status = 500 /\ task[k1].out # <<>>
        /\ task[k2].root.status = 500 /\ task[k2].out = <<>>

\* C9 as claimed, on the runs that reach the probing: every run that has ended
\* has written results.json exactly once.
C9_EveryRunWritesOnce ==
    (pc \in {"returned", "failed"} /\ cands # <<>>) => writes = 1

\* C9 amended: results.json is written at most once in a run and only when the
\* probe of every candidate has resolved, never while a probe is outstanding; a
\* run that returns after probing its candidates has written it exactly once; a
\* run that fails (failed quota query, missing cache) has not written it, nor
\* has a run that read an empty candidate sequence (see C10).
C9_WrittenOnceAfterAllResolved ==
    /\ writes <= 1
    /\ writes = 1 =>
          /\ pc = "returned"
          /\ cands # <<>>
          /\ \A k \in DOMAIN task : task[k].st = "done"
    /\ (pc = "returned" /\ cands # <<>>) => writes = 1
    /\ (pc = "returned" /\ cands = <<>>) => writes = 0
    /\ pc = "failed" => writes = 0

C9_Witness ==
    /\ variant = "par"
    /\ pc = "returned"
    /\ writes = 1
    /\ Len(cands) = 2
    /\ \A k \in DOMAIN task : task[k].st = "done"

\* C10: after a run of checkRepositories that returns, results.json holds the
\* filtered output of that run, also when the candidate sequence is empty.
C10_ResultsOverwrittenEachRun ==
    pc = "returned" => resultsFile = File(ret)


\* C11: a run that finds the cache file at its start issues no request to the
\* search service, takes the cached sequence as its candidates and leaves the
\* cache file as it is; a search request is only ever issued in a run that found
\* the cache file absent.
C11_CachePresentSkipsSearch ==
    /\ []((pc \in {"checking", "returned"} /\ reqLog = <<>>) => cacheFile = File(cands))
    /\ [](pc \in {"fetchReq", "fetchDelay", "fetched"} => reqLog # <<>>)
    /\ [][ /\ (pc = "init" /\ cacheFile.exists)
              => /\ reqLog' = <<>>
                 /\ pc' \in {"checking", "returned"}
                 /\ cands' = cacheFile.data
                 /\ cacheFile' = cacheFile
           /\ reqLog' # reqLog
              => \/ pc = "init" /\ ~cacheFile.exists
                 \/ pc = "fetchDelay"
           /\ (reqLog = <<>> /\ pc # "init") => (reqLog' = <<>> /\ cacheFile' = cacheFile) ]_vars

C11_Witness ==
    /\ pc = "returned"
    /\ writes = 1
    /\ reqLog = <<>>
    /\ Len(cands) = 2
    /\ cacheFile = File(cands)

\* C12: against a backend that answers every page request the same way both
\* times, the second of two invocations of fetchRepositories requests the same
\* pages as the first, returns the sequence the first returned and leaves the
\* cache file with the content the first left.
C12_FetchIdempotent ==
    /\ []((pc = "fetched" /\ Calls = 2) =>
             /\ Len(reqLog) % 2 = 0
             /\ SubSeq(reqLog, 1, Len(reqLog) \div 2)
                   = SubSeq(reqLog, Len(reqLog) \div 2 + 1, Len(reqLog))
             /\ (~RequestFailed => cacheFile = File(fetchRet)))
    /\ [][(Calls = 2 /\ pc # "fetched" /\ pc' = "fetched")
              => (fetchRet' = fetchRet /\ cacheFile' = cacheFile)]_vars

C12_Witness ==
    /\ pc = "fetched"
    /\ Calls = 2
    /\ Len(reqLog) = 60
    /\ Len(fetchRet) = 30
    /\ cacheFile = File(fetchRet)

\* C13: in the sequential variant waitIfNeeded is called exactly once for every
\* candidate that is probed and has returned (after its pause, if it paused)
\* before the root lookup is issued; every probe, whether it retained the
\* candidate, rejected it or had a failed lookup, is followed by the 500 ms
\* delay, and only the end of that delay starts the next candidate or the write.
C13_SeqGovernorBeforeEveryProbe ==
    /\ [](variant = "seq" => \A k \in DOMAIN task :
             /\ task[k].gov <= 1
             /\ task[k].st # "idle" => task[k].gov = 1
             /\ task[k].lookups # <<>> => task[k].gov = 1
             /\ task[k].st \in {"idle", "quota", "pause", "rejected"} => task[k].lookups = <<>>)
    /\ [][variant = "seq" => \A k \in DOMAIN task :
             /\ (task'[k].lookups # <<>> /\ task[k].lookups = <<>>)
                   => \/ task[k].st = "pause"
                      \/ /\ task[k].st = "quota"
                         /\ task[k].quota.kind = "ok"
                         /\ task[k].quota.remaining >= 100
             /\ (task[k].st \in {"root", "nested"} /\ task'[k].st # task[k].st)
                   => task'[k].st \in {"nested", "delay"}
             /\ (task'[k].st = "done" /\ task[k].st # "done") => task[k].st = "delay"
             /\ (task[k].st = "delay" /\ task'[k] # task[k])
                   => /\ task'[k].st = "done"
                      /\ IF k < Len(cands)
                         THEN task'[k + 1].st = "quota" /\ writes' = writes
                         ELSE writes' = writes + 1
             /\ writes' # writes => task[Len(cands)].st = "delay" ]_vars

C13_Witness ==
    /\ variant = "seq"
    /\ Len(task) = 2
    /\ task[1].st = "done" /\ task[1].out # <<>> /\ task[1].gov = 1
    /\ task[2].st = "delay" /\ task[2].root.status = 500 /\ task[2].gov = 1

\* the candidates with an external call outstanding, and those whose iteration
\* (or callback) is between its start and its end
Calling == {k \in DOMAIN task : task[k].st \in {"quota", "root", "nested"}}
Active == {k \in DOMAIN task : task[k].st \in {"quota", "pause", "root", "nested", "delay"}}

\* C14: in the sequential variant at most one external call (page request,
\* quota query, root lookup, nested lookup) is outstanding at any moment, a
\* pause or delay of one candidate leaves no call outstanding, and candidate
\* i+1 is not touched before the probe of candidate i has resolved and its
\* iteration has ended.
C14_SeqOneCallInOrder ==
    variant = "seq" =>
        /\ Cardinality(Calling) + (IF pc = "fetchReq" THEN 1 ELSE 0) <= 1
        /\ Cardinality(Active) <= 1
        /\ pc \in {"fetchReq", "fetchDelay", "fetched"} => task = <<>>
        /\ \A k \in DOMAIN task :
              k > 1 /\ task[k].st # "idle" =>
                  /\ task[k - 1].st = "done"
                  /\ task[k - 1].lookups # <<>>
                  /\ i >= k - 1

C14_Witness ==
    /\ variant = "seq"
    /\ Len(task) = 2
    /\ task[1].st = "done"
    /\ task[2].st = "nested"
    /\ Calling = {2}

\* C15: in the parallel variant waitIfNeeded is called exactly once for each
\* candidate whose zero-based index is a multiple of 10 and for no other; the
\* probes of the other candidates are issued at once, without waiting for any
\* quota answer or pause; a step of one candidate's governor (its answer, its
\* pause, its end) changes no other candidate, and a probe in flight stays in
\* flight until its own answer resolves it.
C15_ParGovernorEveryTenth ==
    /\ [](\A k \in DOMAIN task :
             /\ task[k].gov = (IF (k - 1) % 10 = 0 THEN 1 ELSE 0)
             /\ (k - 1) % 10 # 0 =>
                   /\ task[k].st \in {"root", "nested", "done"}
                   /\ task[k].quota = NoAnswer)
    /\ [][\A k \in DOMAIN task :
             /\ (task[k].st \in {"quota", "pause"} /\ task'[k] # task[k])
                   => \A j \in DOMAIN task : j # k => task'[j] = task[j]
             /\ task[k].st \in {"root", "nested"}
                   => task'[k].st \in {"root", "nested", "done"}
             /\ (task[k].st \in {"root", "nested"} /\ task'[k] # task[k])
                   => \A j \in DOMAIN task : j # k => task'[j] = task[j] ]_vars

C15_Witness ==
    /\ Len(task) >= 11
    /\ task[1].st = "pause" /\ task[1].quota.remaining = 99
    /\ task[11].st = "root" /\ task[11].gov = 1
    /\ task[2].st = "root" /\ task[2].gov = 0
    /\ task[3].st = "done" /\ task[3].root.status = 404

\* the candidates whose probe result passes the filter, and the position of
\* candidate k's record among them
Kept == {k \in DOMAIN task : task[k].res.hasCi /\ task[k].res.hasPackageJson}
Pos(k) == Cardinality({j \in Kept : j <= k})

\* C16: in the parallel variant, whatever the order in which the probes
\* complete, the joined result holds the record of each qualifying candidate
\* exactly once, at the position of that candidate among the qualifying ones,
\* and nothing else; each callback yields its own value when its own probe
\* resolves, and the shared array validRepos is never appended to.
C16_ParJoinLosesNothing ==
    /\ [](variant = "par" =>
             /\ validRepos = <<>>
             /\ \A k \in DOMAIN task : task[k].out # <<>> => (k \in Kept /\ task[k].st = "done")
             /\ (pc = "returned" /\ writes = 1) =>
                   /\ Len(ret) = Cardinality(Kept)
                   /\ \A k \in Kept : ret[Pos(k)] = Project(cands[k], task[k].res)
                   /\ resultsFile = File(ret))
    /\ [][variant = "par" => \A k \in DOMAIN task :
             task'[k].out # task[k].out =>
                 /\ task[k].st \in {"root", "nested"}
                 /\ task'[k].st = "done"
                 /\ \A j \in DOMAIN task : j # k => task'[j] = task[j] ]_vars

C16_Witness ==
    /\ variant = "par"
    /\ pc = "returned"
    /\ writes = 1
    /\ Len(ret) = 2
    /\ ret[1].id = 2 /\ ret[2].id = 1
    /\ task[1].res.hasGha
    /\ task[2].nested.status = 500

\* C17: a probe issues at most two lookups, the root listing first; the nested
\* listing is looked up only after a successful root lookup whose listing holds
\* a directory entry named .github, and never after a failed root lookup or a
\* listing without such a directory.
C17_NestedOnlyForGithubDirectory ==
    \A k \in DOMAIN task :
        /\ task[k].lookups \in {<<>>, <<"root">>, <<"root", "workflows">>}
        /\ Len(task[k].lookups) = 2 =>
              /\ task[k].root.status = 200
              /\ \E e \in 1..Len(task[k].root.data) :
                    task[k].root.data[e] = D(".github")
        /\ (Resolved(task[k]) /\ task[k].root.status # 200) => task[k].lookups = <<"root">>

\* the output record of candidate k as a function of the answers the host API
\* gave to its lookups, the same function for both variants
RefRecord(k) ==
    LET names == IF task[k].root.status = 200 THEN NamesOf(task[k].root) ELSE {}
        manifest == "package.json" \in names
        other == names \cap OtherCiNames # {}
        native == /\ ".github" \in names
                  /\ task[k].nested.status = 200
                  /\ \E n \in NamesOf(task[k].nested) : EndsWith(n, ".yml")
    IN  IF manifest /\ (native \/ other)
        THEN <<Project(cands[k], [hasCi |-> TRUE, hasGha |-> native,
                                  hasOtherCiCd |-> other, hasPackageJson |-> TRUE])>>
        ELSE <<>>

RECURSIVE RefOutput(_)
RefOutput(n) == IF n = 0 THEN <<>> ELSE RefOutput(n - 1) \o RefRecord(n)

\* C18: a run without quota failure that writes results.json writes, in the
\* sequential and in the parallel variant alike and in every completion order of
\* the parallel probes, the sequence that is a function of the candidate
\* sequence and of the answers to the lookups alone: the records of the
\* qualifying candidates, in candidate-list order; both variants issue the
\* same lookups for a candidate, and over an empty candidate sequence both
\* return without writing.
C18_VariantsWriteSameOutput ==
    /\ (pc = "returned" /\ writes = 1) =>
          /\ resultsFile = File(RefOutput(Len(cands)))
          /\ ret = RefOutput(Len(cands))
          /\ \A k \in DOMAIN task :
                /\ task[k].st = "done"
                /\ task[k].root # NoResp
                /\ (task[k].nested # NoResp) =
                      (task[k].root.status = 200 /\ ".github" \in NamesOf(task[k].root))
    /\ (pc = "returned" /\ writes = 0) =>
          /\ cands = <<>>
          /\ ret = <<>>
          /\ resultsFile = File(StaleResults)

C18_Witness ==
    /\ variant = "par"
    /\ pc = "returned"
    /\ writes = 1
    /\ Len(resultsFile.data) = 2
    /\ resultsFile.data[1].id = 1 /\ resultsFile.data[1].hasGha
    /\ resultsFile.data[2].id = 2 /\ ~resultsFile.data[2].hasGha

\* C19: when a run that found no cache file has its fetch aborted by a failed
\* page request, checkRepositories does not go on with the empty sequence the
\* fetch returned: the read of the still-missing cache file fails the run, with
\* no candidate, no quota query, no probe and no write of results.json.
C19_FailedFetchFailsRun ==
    /\ []((RequestFailed /\ pc \notin {"fetchReq", "fetchDelay", "fetched"}) =>
             /\ pc = "failed"
             /\ ~cacheFile.exists
             /\ cands = <<>> /\ task = <<>>
             /\ writes = 0 /\ resultsFile = File(StaleResults))
    /\ [](pc \in {"checking", "returned"} => ~RequestFailed)
    /\ [][(pc = "fetched" /\ RequestFailed) =>
              /\ fetchRet = <<>>
              /\ pc' = "failed"
              /\ UNCHANGED <<cacheFile, resultsFile, cands, task, writes, ret>>]_vars

C19_Witness ==
    /\ pc = "failed"
    /\ RequestFailed
    /\ Len(reqLog) = 2
    /\ Len(repositories) = 1
    /\ fetchRet = <<>>
    /\ task = <<>>
    /\ ~cacheFile.exists

\* the number of root lookups issued for a task
Probes(t) == Cardinality({j \in 1..Len(t.lookups) : t.lookups[j] = "root"})

\* C20: every run eventually either returns after writing its output or ends in
\* failure, and it never issues more than 30 page requests nor more than one
\* probe per candidate.
C20_EveryRunTerminates ==
    /\ <>((pc = "returned" /\ writes = 1) \/ pc = "failed")
    /\ [](Len(reqLog) <= 30)
    /\ [](\A k \in DOMAIN task : Probes(task[k]) <= 1)

====
